---- MODULE Spec2Model ----
(***************************************************************************)
(* Model of the CMSMobile stores and API client:                           *)
(*   - UserStore (app/stores/UserStore: models, views, actions, flows),    *)
(*   - the key-value storage it persists to (three JSON blobs),            *)
(*   - the I3HostApi response transform (401 handling).                    *)
(* JavaScript values are modelled as tagged records, JSON text as a        *)
(* separate representation, so that stringify/parse/create are real        *)
(* conversions.  MobX-State-Tree type checks are the development-build     *)
(* checks (an invalid snapshot or assignment throws).                      *)
(***************************************************************************)
EXTENDS Integers, Sequences, FiniteSets, TLC

(***************************************************************************)
(* Bounds of the model                                                     *)
(***************************************************************************)
\* number of clock advances explored
MaxTicks == 2
\* number of flows that may be suspended at their timers at the same time
MaxPending == 2
\* number of logout-callback invocations counted per callback
MaxCalls == 2
\* length of the e-mail addresses typed into the store
MaxEmailLen == 6
MaxProducts == 3

(***************************************************************************)
(* JavaScript values                                                       *)
(***************************************************************************)
Undefined == [t |-> "undefined"]
Null == [t |-> "null"]
Str(s) == [t |-> "string", s |-> s]
Bool(b) == [t |-> "boolean", b |-> b]
Num(n) == [t |-> "number", n |-> n]
Obj(o) == [t |-> "object", o |-> o]

\* JavaScript truthiness, as used by `if (x)`, `!x`, `x || y`
Truthy(v) ==
  CASE v.t = "undefined" -> FALSE
    [] v.t = "null" -> FALSE
    [] v.t = "string" -> Len(v.s) # 0
    [] v.t = "boolean" -> v.b
    [] v.t = "number" -> v.n # 0
    [] OTHER -> TRUE

\* property read `v.f` on a non-nullish value: a missing property is undefined
Prop(v, f) ==
  IF v.t = "object" /\ f \in DOMAIN v.o THEN v.o[f] ELSE Undefined

(***************************************************************************)
(* JSON text.  A stored blob is absent, the empty string, unparseable      *)
(* text, or the text of a JSON literal or of a flat JSON object.  Tokens   *)
(* are text: a quoted string, or an unquoted true/false/null/number.       *)
(***************************************************************************)
Absent == [k |-> "absent"]
EmptyText == [k |-> "empty"]
GarbageText == [k |-> "garbage"]

Tok(v) ==
  CASE v.t = "string" -> [q |-> TRUE, s |-> v.s]
    [] v.t = "boolean" -> [q |-> FALSE, s |-> IF v.b THEN "true" ELSE "false"]
    [] v.t = "number" -> [q |-> FALSE, s |-> ToString(v.n)]
    [] OTHER -> [q |-> FALSE, s |-> "null"]

NumberTexts == {0, 5}

Untok(tok) ==
  IF tok.q THEN Str(tok.s)
  ELSE IF tok.s = "true" THEN Bool(TRUE)
  ELSE IF tok.s = "false" THEN Bool(FALSE)
  ELSE IF tok.s = "null" THEN Null
  ELSE Num(CHOOSE n \in NumberTexts : ToString(n) = tok.s)

\* JSON.stringify of a flat value: properties whose value is undefined are dropped
JSONstringify(v) ==
  IF v.t = "object"
  THEN [k |-> "json", top |-> "object",
        pairs |-> {<<f, Tok(v.o[f])>> : f \in {g \in DOMAIN v.o : v.o[g].t # "undefined"}}]
  ELSE [k |-> "json", top |-> "literal", lit |-> Tok(v)]

\* JSON.parse: ok = FALSE stands for the SyntaxError it throws
JSONparse(text) ==
  IF text.k # "json" THEN [ok |-> FALSE, v |-> Undefined]
  ELSE IF text.top = "literal" THEN [ok |-> TRUE, v |-> Untok(text.lit)]
  ELSE [ok |-> TRUE,
        v |-> Obj([f \in {p[1] : p \in text.pairs} |->
                     Untok((CHOOSE p \in text.pairs : p[1] = f)[2])])]

\* a string read back from storage is truthy iff present and non-empty
TextTruthy(text) == text.k \notin {"absent", "empty"}

(***************************************************************************)
(* Models (models.ts)                                                      *)
(***************************************************************************)
IsMaybeString(v) == v.t \in {"string", "undefined"}

Themes == {"light", "dark", "system"}

\* User.create(snapshot): ok = FALSE stands for the type error it throws
UserCreate(v) ==
  IF v.t = "object" /\ Prop(v, "id").t = "string" /\ Prop(v, "email").t = "string"
     /\ IsMaybeString(Prop(v, "name")) /\ IsMaybeString(Prop(v, "avatar"))
  THEN [ok |-> TRUE,
        v |-> Obj([id |-> Prop(v, "id"), email |-> Prop(v, "email"),
                   name |-> Prop(v, "name"), avatar |-> Prop(v, "avatar")])]
  ELSE [ok |-> FALSE, v |-> Undefined]

UserSessionCreate(v) ==
  IF v.t = "object" /\ Prop(v, "token").t = "string"
     /\ IsMaybeString(Prop(v, "expiresAt")) /\ IsMaybeString(Prop(v, "refreshToken"))
  THEN [ok |-> TRUE,
        v |-> Obj([token |-> Prop(v, "token"), expiresAt |-> Prop(v, "expiresAt"),
                   refreshToken |-> Prop(v, "refreshToken")])]
  ELSE [ok |-> FALSE, v |-> Undefined]

\* an enumeration that accepts every string
ThemeOkAnyString(v) == v.t = "string"

ThemeOk(v) == v.t = "string" /\ v.s \in Themes

\* types.optional(T, d): an undefined snapshot value takes the default
Optional(v, d) == IF v.t = "undefined" THEN d ELSE v

UserPreferencesCreate(v) ==
  LET th == Optional(Prop(v, "theme"), Str("system"))
      la == Optional(Prop(v, "language"), Str("en"))
      no == Optional(Prop(v, "notifications"), Bool(TRUE))
  IN IF v.t = "object" /\ ThemeOk(th) /\ la.t = "string" /\ no.t = "boolean"
     THEN [ok |-> TRUE, v |-> Obj([theme |-> th, language |-> la, notifications |-> no])]
     ELSE [ok |-> FALSE, v |-> Undefined]

(***************************************************************************)
(* The store (UserStore.ts) and its storage                                *)
(***************************************************************************)
\* UserStoreModel: the snapshot of a freshly created store
FreshStore ==
  [currentUser |-> Undefined, session |-> Undefined, preferences |-> Undefined,
   isLoading |-> FALSE, isAuthenticating |-> FALSE, error |-> Undefined]

StorageKeys == {"userSession", "currentUser", "userPreferences"}

EmptyStorage == [key \in StorageKeys |-> Absent]

\* A world is the store, the storage and whether the running code has thrown
World(st, stor) == [st |-> st, stor |-> stor, threw |-> FALSE, msg |-> ""]
Throw(w, m) == [w EXCEPT !.threw = TRUE, !.msg = m]

TypeErrorMsg == "[mobx-state-tree] Error while converting value"
NullReadMsg == "Cannot read properties of undefined"

(***************************************************************************)
(* Synchronous actions (userStoreActions)                                  *)
(***************************************************************************)
setLoading(w, loading) == [w EXCEPT !.st.isLoading = loading]

setAuthenticating(w, authenticating) == [w EXCEPT !.st.isAuthenticating = authenticating]

\* self.error = error || undefined
setError(w, error) ==
  [w EXCEPT !.st.error = IF Truthy(error) THEN error ELSE Undefined]

clearError(w) == [w EXCEPT !.st.error = Undefined]

\* setSession whose clearing branch forgets storage.delete
setSessionKeepsBlob(w, sessionData) ==
  IF Truthy(sessionData)
  THEN LET c == UserSessionCreate(Obj([token |-> Prop(sessionData, "token"),
                                        expiresAt |-> Prop(sessionData, "expiresAt"),
                                        refreshToken |-> Prop(sessionData, "refreshToken")]))
       IN IF c.ok
          THEN [w EXCEPT !.st.session = c.v,
                         !.stor.userSession = JSONstringify(sessionData)]
          ELSE Throw(w, TypeErrorMsg)
  ELSE [w EXCEPT !.st.session = Undefined]

setSession(w, sessionData) ==
  IF Truthy(sessionData)
  THEN LET c == UserSessionCreate(Obj([token |-> Prop(sessionData, "token"),
                                        expiresAt |-> Prop(sessionData, "expiresAt"),
                                        refreshToken |-> Prop(sessionData, "refreshToken")]))
       IN IF c.ok
          THEN [w EXCEPT !.st.session = c.v,
                         !.stor.userSession = JSONstringify(sessionData)]
          ELSE Throw(w, TypeErrorMsg)
  ELSE [w EXCEPT !.st.session = Undefined, !.stor.userSession = Absent]

setCurrentUser(w, userData) ==
  IF Truthy(userData)
  THEN LET c == UserCreate(userData)
       IN IF c.ok
          THEN [w EXCEPT !.st.currentUser = c.v,
                         !.stor.currentUser = JSONstringify(userData)]
          ELSE Throw(w, TypeErrorMsg)
  ELSE [w EXCEPT !.st.currentUser = Undefined, !.stor.currentUser = Absent]

\* the three guarded assignments of setPreferences on an existing node, in
\* order; an assignment of a value of the wrong type throws and leaves the
\* earlier assignments in place
AssignPreferences(w, preferences) ==
  LET th == Prop(preferences, "theme")
      la == Prop(preferences, "language")
      no == Prop(preferences, "notifications")
      w1 == IF ~Truthy(th) THEN w
            ELSE IF ThemeOk(th) THEN [w EXCEPT !.st.preferences.o.theme = th]
            ELSE Throw(w, TypeErrorMsg)
      w2 == IF w1.threw \/ ~Truthy(la) THEN w1
            ELSE IF la.t = "string" THEN [w1 EXCEPT !.st.preferences.o.language = la]
            ELSE Throw(w1, TypeErrorMsg)
      w3 == IF w2.threw \/ no.t = "undefined" THEN w2
            ELSE IF no.t = "boolean" THEN [w2 EXCEPT !.st.preferences.o.notifications = no]
            ELSE Throw(w2, TypeErrorMsg)
  IN w3

\* setPreferences that only creates the node and never overwrites an existing one
setPreferencesKeepExisting(w, preferences) ==
  IF Truthy(w.st.preferences) THEN w
  ELSE LET c == UserPreferencesCreate(preferences)
       IN IF c.ok
          THEN [w EXCEPT !.st.preferences = c.v,
                         !.stor.userPreferences = JSONstringify(c.v)]
          ELSE Throw(w, TypeErrorMsg)

setPreferences(w, preferences) ==
  LET w1 == IF ~Truthy(w.st.preferences)
            THEN LET c == UserPreferencesCreate(preferences)
                 IN IF c.ok THEN [w EXCEPT !.st.preferences = c.v]
                    ELSE Throw(w, TypeErrorMsg)
            ELSE IF preferences.t \in {"null", "undefined"}
                 THEN Throw(w, NullReadMsg)
                 ELSE AssignPreferences(w, preferences)
  IN IF w1.threw THEN w1
     ELSE [w1 EXCEPT !.stor.userPreferences = JSONstringify(w1.st.preferences)]

\* setUserEmail that forgets to re-persist the user
setUserEmailNoPersist(w, email) ==
  IF Truthy(w.st.currentUser)
  THEN [w EXCEPT !.st.currentUser.o.email = email]
  ELSE w

setUserEmail(w, email) ==
  IF Truthy(w.st.currentUser)
  THEN LET w1 == [w EXCEPT !.st.currentUser.o.email = email]
       IN [w1 EXCEPT !.stor.currentUser = JSONstringify(w1.st.currentUser)]
  ELSE w

updateProfile(w, updates) ==
  IF Truthy(w.st.currentUser)
  THEN LET na == Prop(updates, "name")
           av == Prop(updates, "avatar")
           w1 == IF Truthy(na) THEN [w EXCEPT !.st.currentUser.o.name = na] ELSE w
           w2 == IF Truthy(av) THEN [w1 EXCEPT !.st.currentUser.o.avatar = av] ELSE w1
       IN [w2 EXCEPT !.stor.currentUser = JSONstringify(w2.st.currentUser)]
  ELSE w

(***************************************************************************)
(* Time: Date.now(), Date.prototype.toISOString and new Date(string)       *)
(***************************************************************************)
\* 24 * 60 * 60 * 1000 milliseconds
DayMs == 86400000

\* the instants the bounded clock can show, and the expiries computed from them
KnownTimes == {a + b * DayMs : a \in 0..(MaxTicks + 1), b \in 0..(MaxTicks + 2)}

toISOString(ms) == "iso:" \o ToString(ms)

\* new Date(string): valid = FALSE stands for Invalid Date (NaN)
DateParse(s) ==
  IF \E n \in KnownTimes : toISOString(n) = s
  THEN [valid |-> TRUE, ms |-> CHOOSE n \in KnownTimes : toISOString(n) = s]
  ELSE [valid |-> FALSE, ms |-> 0]

(***************************************************************************)
(* Views (userStoreViews)                                                  *)
(***************************************************************************)
\* self.session?.f
SessionProp(st, f) == IF Truthy(st.session) THEN Prop(st.session, f) ELSE Undefined

isAuthenticated(st) == Truthy(SessionProp(st, "token")) /\ Truthy(st.currentUser)

\* self.currentUser?.f
UserProp(st, f) == IF Truthy(st.currentUser) THEN Prop(st.currentUser, f) ELSE Undefined

\* a || b
OrElse(a, b) == IF Truthy(a) THEN a ELSE b

\* the empty string, as the sequence of its characters
EmptyString == Str(<<>>)

userEmail(st) == OrElse(UserProp(st, "email"), EmptyString)

\* the characters the regular expression tells apart
Whitespace == {" "}
InClass(c) == c \notin Whitespace \cup {"@"}

\* /^[^\s@]+@[^\s@]+\.[^\s@]+$/.test(s), s a sequence of characters
EmailRegexTest(s) ==
  \E i, j \in 1..Len(s) :
    /\ 1 < i /\ i + 1 < j /\ j < Len(s)
    /\ s[i] = "@"
    /\ s[j] = "."
    /\ \A k \in 1..Len(s) : k \notin {i, j} => InClass(s[k])

\* a display name that prefers the e-mail address over the name
userDisplayNameEmailFirst(st) ==
  OrElse(UserProp(st, "email"), OrElse(UserProp(st, "name"), Str("Unknown User")))

\* self.currentUser?.name || self.currentUser?.email || "Unknown User"
userDisplayName(st) ==
  OrElse(UserProp(st, "name"), OrElse(UserProp(st, "email"), Str("Unknown User")))

\* a validation that tests the format before the length
emailValidationErrorFormatFirst(st) ==
  LET email == userEmail(st)
  IN IF ~Truthy(email) \/ Len(email.s) = 0 THEN Str("Email can't be blank")
     ELSE IF ~EmailRegexTest(email.s) THEN Str("Must be a valid email address")
     ELSE IF Len(email.s) < 6 THEN Str("Email must be at least 6 characters")
     ELSE Str("")

emailValidationError(st) ==
  LET email == userEmail(st)
  IN IF ~Truthy(email) \/ Len(email.s) = 0 THEN Str("Email can't be blank")
     ELSE IF Len(email.s) < 6 THEN Str("Email must be at least 6 characters")
     ELSE IF ~EmailRegexTest(email.s) THEN Str("Must be a valid email address")
     ELSE Str("")

isLoginValid(st) == Len(emailValidationError(st).s) = 0

\* an expiry check that already fires at the instant of expiry
isSessionExpiredInclusive(st, t) ==
  IF ~Truthy(SessionProp(st, "expiresAt")) THEN FALSE
  ELSE LET d == DateParse(SessionProp(st, "expiresAt").s)
       IN d.valid /\ t >= d.ms

\* new Date() > new Date(self.session.expiresAt); a comparison with NaN is false
isSessionExpired(st, t) ==
  IF ~Truthy(SessionProp(st, "expiresAt")) THEN FALSE
  ELSE LET d == DateParse(SessionProp(st, "expiresAt").s)
       IN d.valid /\ t > d.ms

(***************************************************************************)
(* Flow bodies (userStoreAsyncActions).  Each operator is the code of one  *)
(* synchronous stretch of a flow; it returns the world and, where the flow *)
(* completes, the value the flow returns.                                  *)
(***************************************************************************)
Ok == [success |-> TRUE, error |-> Undefined]
Fail(m) == [success |-> FALSE, error |-> Str(m)]
NoValue == Undefined

Done(w, ret) == [w |-> w, ret |-> ret]

\* a credential check that forgets the password
ValidCredentialsEmailOnly(email, password) == email = "demo@example.com"

\* email === "demo@example.com" && password === "password"
ValidCredentials(email, password) == email = "demo@example.com" /\ password = "password"

loginStart(w) == clearError(setAuthenticating(w, TRUE))

\* login after its timer, at Date.now() = t
loginResume(w, email, password, t) ==
  IF ValidCredentials(email, password)
  THEN LET mockUser == Obj([id |-> Str("1"), email |-> Str(email),
                            name |-> Str("Demo User"),
                            avatar |-> Str("https://via.placeholder.com/150")])
           mockSession == Obj([token |-> Str("mock_jwt_token_" \o ToString(t)),
                               expiresAt |-> Str(toISOString(t + DayMs)),
                               refreshToken |-> Str("mock_refresh_token_" \o ToString(t))])
           defaultPreferences == Obj([theme |-> Str("system"), language |-> Str("en"),
                                      notifications |-> Bool(TRUE)])
           w1 == setSession(w, mockSession)
           w2 == setCurrentUser(w1, mockUser)
           w3 == setPreferences(w2, defaultPreferences)
       IN Done(setAuthenticating(w3, FALSE), Ok)
  ELSE Done(setAuthenticating(setError(w, Str("Invalid email or password")), FALSE),
            Fail("Invalid email or password"))

\* a logout that clears the session but leaves the current user
logoutSessionOnly(w) ==
  LET w1 == setLoading(w, TRUE)
      w2 == setSession(w1, Null)
      w4 == clearError(w2)
  IN setLoading(w4, FALSE)

\* logout has no suspension point: it runs to completion when called
logout(w) ==
  LET w1 == setLoading(w, TRUE)
      w2 == setSession(w1, Null)
      w3 == setCurrentUser(w2, Null)
      w4 == clearError(w3)
  IN setLoading(w4, FALSE)

\* one guarded read of hydrate: parse the stored text and hand it to a setter
hydrateSession(w) ==
  IF w.threw \/ ~TextTruthy(w.stor.userSession) THEN w
  ELSE LET p == JSONparse(w.stor.userSession)
       IN IF p.ok THEN setSession(w, p.v) ELSE Throw(w, "SyntaxError")

hydrateUser(w) ==
  IF w.threw \/ ~TextTruthy(w.stor.currentUser) THEN w
  ELSE LET p == JSONparse(w.stor.currentUser)
       IN IF p.ok THEN setCurrentUser(w, p.v) ELSE Throw(w, "SyntaxError")

hydratePreferences(w) ==
  IF w.threw \/ ~TextTruthy(w.stor.userPreferences) THEN w
  ELSE LET p == JSONparse(w.stor.userPreferences)
       IN IF p.ok THEN setPreferences(w, p.v) ELSE Throw(w, "SyntaxError")

\* the catch block of hydrate
hydrateCatch(w) ==
  setCurrentUser(setSession([w EXCEPT !.threw = FALSE, !.msg = ""], Null), Null)

\* hydrate has no suspension point either
hydrate(w) ==
  LET w1 == setLoading(w, TRUE)
      w2 == hydratePreferences(hydrateUser(hydrateSession(w1)))
      w3 == IF w2.threw THEN hydrateCatch(w2) ELSE w2
  IN setLoading(w3, FALSE)

refreshUserGuard(w) == ~Truthy(SessionProp(w.st, "token"))

refreshUserStart(w) == setLoading(w, TRUE)

refreshUserResume(w) == Done(setLoading(w, FALSE), NoValue)

updateUserProfileGuard(w) == ~Truthy(SessionProp(w.st, "token"))

updateUserProfileReject(w) ==
  Done(setError(w, Str("Not authenticated")), Fail("Not authenticated"))

updateUserProfileStart(w) == setLoading(w, TRUE)

\* updateUserProfile that installs the user the server sent back
updateUserProfileResumeSetsUser(w, updates) ==
  LET updatedUser == Obj([id |-> Str("1"), email |-> Str("demo@example.com"),
                          name |-> Prop(updates, "name")])
  IN Done(setLoading(setCurrentUser(w, updatedUser), FALSE), Ok)

updateUserProfileResume(w, updates) ==
  Done(setLoading(updateProfile(w, updates), FALSE), Ok)

updatePreferencesStart(w) == setLoading(w, TRUE)

\* updatePreferences without its finally block on the failure path
updatePreferencesResumeNoFinally(w, preferences) ==
  LET w1 == setPreferences(w, preferences)
  IN IF w1.threw
     THEN Done(setError([w1 EXCEPT !.threw = FALSE, !.msg = ""], Str(w1.msg)), Fail(w1.msg))
     ELSE Done(setLoading(w1, FALSE), Ok)

updatePreferencesResume(w, preferences) ==
  LET w1 == setPreferences(w, preferences)
  IN IF w1.threw
     THEN Done(setLoading(setError([w1 EXCEPT !.threw = FALSE, !.msg = ""], Str(w1.msg)),
                          FALSE),
               Fail(w1.msg))
     ELSE Done(setLoading(w1, FALSE), Ok)

refreshSessionGuard(w) == ~Truthy(SessionProp(w.st, "refreshToken"))

refreshSessionReject(w) ==
  Done(setError(w, Str("No refresh token available")), Fail("No refresh token available"))

\* a catch block that reports the failure but does not log out
refreshSessionCatchNoLogout(w, errorMessage) ==
  Done(setError(w, Str(errorMessage)), Fail(errorMessage))

\* the catch block of refreshSession: `yield self.logout()` resumes in a
\* microtask of the same turn, so no other handler runs in between
refreshSessionCatch(w, errorMessage) ==
  Done(logout(setError(w, Str(errorMessage))), Fail(errorMessage))

\* a refreshSession that reads self.session?.refreshToken after the timer
refreshSessionResumeOptionalChaining(w, t) ==
  LET newSession == Obj([token |-> Str("refreshed_token_" \o ToString(t)),
                         expiresAt |-> Str(toISOString(t + DayMs)),
                         refreshToken |-> SessionProp(w.st, "refreshToken")])
  IN Done(setSession(w, newSession), Ok)

\* refreshSession after its timer, at Date.now() = t; reading
\* self.session.refreshToken throws when the session is gone
refreshSessionResume(w, t) ==
  IF ~Truthy(w.st.session)
  THEN refreshSessionCatch(w, NullReadMsg)
  ELSE LET newSession == Obj([token |-> Str("refreshed_token_" \o ToString(t)),
                              expiresAt |-> Str(toISOString(t + DayMs)),
                              refreshToken |-> Prop(w.st.session, "refreshToken")])
       IN Done(setSession(w, newSession), Ok)

(***************************************************************************)
(* The UserStore that nests the auth sub-model (UserStore.ts with          *)
(* User/model.ts, Auth/model.ts and Auth/action.ts).  A world here is the  *)
(* store [user, auth] and the text under USER_STORAGE_KEY.                 *)
(***************************************************************************)
\* initialUserStore: no user, empty auth fields
initialUserStore == [user |-> Null, auth |-> [email |-> Str(""), password |-> Str("")]]

AuthWorld(st, blob) == [st |-> st, blob |-> blob]

\* save(key, value) and remove(key) of the key-value storage, for the one key
save(w, value) == [w EXCEPT !.blob = value]
remove(w) == [w EXCEPT !.blob = Absent]

\* UserModel.create(userData): five optional strings
UserModelCreate(userData) ==
  Obj([f \in {"id", "email", "firstName", "lastName", "avatar"} |-> Prop(userData, f)])

\* setUser that keeps the user in memory only
setUserNoSave(w, userData) == [w EXCEPT !.st.user = UserModelCreate(userData)]

setUser(w, userData) ==
  save([w EXCEPT !.st.user = UserModelCreate(userData)], JSONstringify(userData))

\* clearUser that leaves the stored user in place
clearUserKeepStored(w) == [w EXCEPT !.st.user = Null]

clearUser(w) == remove([w EXCEPT !.st.user = Null])

setEmail(w, email) == [w EXCEPT !.st.auth.email = email]

setPassword(w, password) == [w EXCEPT !.st.auth.password = password]

clearFields(w) == [w EXCEPT !.st.auth.email = Str(""), !.st.auth.password = Str("")]

\* an Auth.login that only requires the e-mail address
authLoginGuardEmailOnly(w) == ~Truthy(w.st.auth.email)

\* Auth.login up to its timer: TRUE when the flow returns at once
authLoginGuard(w) == ~Truthy(w.st.auth.email) \/ ~Truthy(w.st.auth.password)

authLoginReject(w) == Done(w, Fail("Email and password are required"))

\* the mock user is built after the timer, from the e-mail address of then
mockUser(w) ==
  Obj([id |-> Str("user-123"), email |-> w.st.auth.email,
       firstName |-> Str("John"), lastName |-> Str("Doe")])

authLoginResume(w) ==
  LET w1 == setUser(w, mockUser(w))
      w2 == [w1 EXCEPT !.st.auth.password = Str("")]
  IN Done(w2, [success |-> TRUE, user |-> mockUser(w)])

\* Auth.logout has no suspension point
authLogout(w) == Done(clearFields(clearUser(w)), [success |-> TRUE])

\* RootStore.reset over this UserStore
resetAuth(w) == clearFields(clearUser(w))

(***************************************************************************)
(* The root store singleton (RootStore.ts, createRootStore/getRootStore).  *)
(* An instance is told apart by the number of the RootStore.create call    *)
(* that made it; the module world is [rootStore, instances].               *)
(***************************************************************************)
\* `let rootStore` before any assignment
NoInstance == 0

NotCreatedMsg == "Root store has not been created yet. Call createRootStore() first."

\* createRootStore without the test of the module variable
createRootStoreAlwaysNew(m) ==
  [m |-> [rootStore |-> m.instances + 1, instances |-> m.instances + 1],
   ret |-> m.instances + 1, threw |-> FALSE, msg |-> ""]

createRootStore(m) ==
  IF m.rootStore # NoInstance
  THEN [m |-> m, ret |-> m.rootStore, threw |-> FALSE, msg |-> ""]
  ELSE [m |-> [rootStore |-> m.instances + 1, instances |-> m.instances + 1],
        ret |-> m.instances + 1, threw |-> FALSE, msg |-> ""]

getRootStore(m) ==
  IF m.rootStore = NoInstance
  THEN [m |-> m, ret |-> NoInstance, threw |-> TRUE, msg |-> NotCreatedMsg]
  ELSE [m |-> m, ret |-> m.rootStore, threw |-> FALSE, msg |-> ""]

(***************************************************************************)
(* The ProductStore (ProductStore/models.ts and its actions).  Prices are  *)
(* in cents.                                                               *)
(***************************************************************************)
FreshProductStore ==
  [products |-> <<>>, categories |-> <<>>, cartItems |-> <<>>,
   isLoading |-> FALSE, error |-> Undefined]

\* Product.create(snapshot) of a well-typed snapshot: the optional
\* properties take their defaults
ProductCreate(v) ==
  Obj([id |-> Prop(v, "id"), name |-> Prop(v, "name"),
       description |-> Prop(v, "description"), price |-> Prop(v, "price"),
       currency |-> Optional(Prop(v, "currency"), Str("USD")),
       imageUrl |-> Prop(v, "imageUrl"), category |-> Prop(v, "category"),
       inStock |-> Optional(Prop(v, "inStock"), Bool(TRUE)),
       stockCount |-> Optional(Prop(v, "stockCount"), Num(0))])

CategoryCreate(v) ==
  Obj([id |-> Prop(v, "id"), name |-> Prop(v, "name"),
       description |-> Prop(v, "description"), parentId |-> Prop(v, "parentId")])

productSetLoading(s, loading) == [s EXCEPT !.isLoading = loading]

productClearError(s) == [s EXCEPT !.error = Undefined]

\* clear(), then push Product.create(product) for each product in order
setProducts(s, products) ==
  [s EXCEPT !.products = [i \in 1..Len(products) |-> ProductCreate(products[i])]]

addProduct(s, productData) ==
  [s EXCEPT !.products = Append(@, ProductCreate(productData))]

\* findIndex, then splice(index, 1): the first product with that id goes
removeProduct(s, productId) ==
  LET found == {i \in 1..Len(s.products) : s.products[i].o.id = Str(productId)}
  IN IF found = {} THEN s
     ELSE LET index == CHOOSE i \in found : \A j \in found : i <= j
          IN [s EXCEPT !.products =
                [i \in 1..(Len(s.products) - 1) |->
                   IF i < index THEN s.products[i] ELSE s.products[i + 1]]]

setCategories(s, categories) ==
  [s EXCEPT !.categories = [i \in 1..Len(categories) |-> CategoryCreate(categories[i])]]

mockProducts ==
  <<Obj([id |-> Str("1"), name |-> Str("Sample Product 1"),
         description |-> Str("A great product"), price |-> Num(2999),
         inStock |-> Bool(TRUE), stockCount |-> Num(10), category |-> Str("electronics")]),
    Obj([id |-> Str("2"), name |-> Str("Sample Product 2"),
         description |-> Str("Another great product"), price |-> Num(4999),
         inStock |-> Bool(TRUE), stockCount |-> Num(5), category |-> Str("electronics")])>>

mockCategories ==
  <<Obj([id |-> Str("electronics"), name |-> Str("Electronics"),
         description |-> Str("Electronic devices")]),
    Obj([id |-> Str("clothing"), name |-> Str("Clothing"),
         description |-> Str("Fashion items")])>>

\* fetchProducts up to its timer, and after it (nothing in the try block
\* throws on the mock data)
fetchProductsStart(s) == productClearError(productSetLoading(s, TRUE))

fetchProductsResume(s) == productSetLoading(setProducts(s, mockProducts), FALSE)

\* fetchCategories does nothing before its timer
fetchCategoriesResume(s) == setCategories(s, mockCategories)

searchProductsStart(s) == productClearError(productSetLoading(s, TRUE))

searchProductsResume(s) == productSetLoading(s, FALSE)

\* an initialize that starts both fetches at once
initializeStartBoth(s) == fetchProductsStart(s)

\* initialize up to the timer of fetchCategories
initializeStart(s) == s

\* fetchCategories completes and initialize goes on to start fetchProducts
initializeCategoriesDone(s) == fetchProductsStart(fetchCategoriesResume(s))

\* fetchProducts completes and with it initialize
initializeProductsDone(s) == fetchProductsResume(s)

(***************************************************************************)
(* State                                                                   *)
(***************************************************************************)
VARIABLES
  userStore,       \* the UserStore instance (store A): its six fields
  storage,         \* the key-value storage: the text under each of the three keys
  flows,           \* the flows suspended at their timers
  now,             \* Date.now()
  ticks,           \* how often the clock has advanced
  storeB,          \* a second UserStore instance created over the same storage
  logoutCallback,  \* I3HostApi.logoutCallback ("none" when not set)
  navReady,        \* navigationRef.isReady()
  navRoutes,       \* the navigation state: its route stack
  calls,           \* how often each logout callback has been invoked
  authStore,       \* the UserStore that nests the auth sub-model: user and auth
  userBlob,        \* the text stored under USER_STORAGE_KEY
  authPending,     \* how many Auth.login flows are suspended at their timer
  rootStore,       \* the module variable rootStore of RootStore.ts: an instance or none
  instances,       \* how many RootStore instances RootStore.create has made
  createCalls,     \* how often createRootStore has been called
  firstInstance,   \* what the first call of createRootStore returned
  productStore,    \* the ProductStore instance
  productFlows,    \* the ProductStore flows suspended at their timers
  ev               \* the operation that ran in the last step, with what it returned

vars == <<userStore, storage, flows, now, ticks, storeB,
          logoutCallback, navReady, navRoutes, calls,
          authStore, userBlob, authPending,
          rootStore, instances, createCalls, firstInstance,
          productStore, productFlows, ev>>

storeVars == <<userStore, storage, flows, now, ticks, storeB>>
apiVars == <<logoutCallback, navReady, navRoutes, calls>>
authVars == <<authStore, userBlob, authPending>>
rootVars == <<rootStore, instances, createCalls, firstInstance>>
productVars == <<productStore, productFlows>>

\* the world the handlers of store A run in
A == World(userStore, storage)

(***************************************************************************)
(* Inputs                                                                  *)
(***************************************************************************)
Credentials ==
  {<<"demo@example.com", "password">>, <<"demo@example.com", "wrong">>,
   <<"Demo@Example.com", "password">>}

SessionInputs ==
  {Null, Obj([token |-> Str("tok")]),
   Obj([token |-> Str("tok"), expiresAt |-> Str("soon"), refreshToken |-> Str("")]),
   Obj([token |-> Str("tok"), expiresAt |-> Str(toISOString(0)), refreshToken |-> Str("r")])}

UserInputs == {Null, Obj([id |-> Str("2"), email |-> Str("a@b.c")])}

PreferenceInputs ==
  {Obj([theme |-> Str("dark")]),
   Obj([language |-> Str("fr"), notifications |-> Bool(FALSE)]),
   Obj([theme |-> Str("purple"), language |-> Str("de")])}

EmailInputs == {Str(""), Str("new@example.com")}

ProfileInputs == {Obj([name |-> Str("New Name")]), Obj([name |-> Str(""), avatar |-> Str("pic")])}

\* what a damaged blob under a key can read as
CorruptTexts ==
  {EmptyText, GarbageText, JSONstringify(Null), JSONstringify(Num(5)),
   JSONstringify(Obj([token |-> Num(5), id |-> Str("1"), theme |-> Str("purple")]))}

\* "corrupted": not parseable as JSON, or not accepted by the key's model
CreateFor(key, v) ==
  CASE key = "userSession" -> UserSessionCreate(v)
    [] key = "currentUser" -> UserCreate(v)
    [] OTHER -> UserPreferencesCreate(v)

Corrupted(key, text) ==
  /\ text # Absent
  /\ \/ ~JSONparse(text).ok
     \/ ~CreateFor(key, JSONparse(text).v).ok

AnyCorrupted(stor) == \E key \in StorageKeys : Corrupted(key, stor[key])

(***************************************************************************)
(* Initial state: a freshly created store over an empty storage, an API    *)
(* client without logout callback, navigation not yet mounted              *)
(***************************************************************************)
Init ==
  /\ userStore = FreshStore
  /\ storage = EmptyStorage
  /\ flows = {}
  /\ now = 0
  /\ ticks = 0
  /\ storeB = FreshStore
  /\ logoutCallback = "none"
  /\ navReady = FALSE
  /\ navRoutes = <<>>
  /\ calls = [cb \in {"cbA", "cbB"} |-> 0]
  /\ authStore = initialUserStore
  /\ userBlob = Absent
  /\ authPending = 0
  /\ rootStore = NoInstance
  /\ instances = 0
  /\ createCalls = 0
  /\ firstInstance = NoInstance
  /\ productStore = FreshProductStore
  /\ productFlows = {}
  /\ ev = [op |-> "create"]

(***************************************************************************)
(* Steps of store A                                                        *)
(***************************************************************************)
\* the world after a handler: store and storage take the handler's result
Commit(w) == userStore' = w.st /\ storage' = w.stor

\* the clock advances between handlers
Tick ==
  /\ ticks < MaxTicks
  /\ \E d \in {1, DayMs} : now' = now + d
  /\ ticks' = ticks + 1
  /\ ev' = [op |-> "tick"]
  /\ UNCHANGED <<userStore, storage, flows, storeB>>
  /\ UNCHANGED apiVars
  /\ UNCHANGED rootVars
  /\ UNCHANGED productVars
  /\ UNCHANGED authVars

\* a synchronous action called from the UI; a throw leaves the store as it
\* was at the throw and reaches the caller
SyncStep(name, w) ==
  /\ Commit(w)
  /\ ev' = [op |-> name, phase |-> "return", threw |-> w.threw]
  /\ UNCHANGED <<flows, now, ticks, storeB>>
  /\ UNCHANGED apiVars
  /\ UNCHANGED rootVars
  /\ UNCHANGED productVars
  /\ UNCHANGED authVars

SetSession == \E d \in SessionInputs : SyncStep("setSession", setSession(A, d))

SetCurrentUser == \E d \in UserInputs : SyncStep("setCurrentUser", setCurrentUser(A, d))

SetPreferences == \E d \in PreferenceInputs : SyncStep("setPreferences", setPreferences(A, d))

SetUserEmail == \E e \in EmailInputs : SyncStep("setUserEmail", setUserEmail(A, e))

UpdateProfile == \E u \in ProfileInputs : SyncStep("updateProfile", updateProfile(A, u))

\* a flow runs up to its timer and suspends; the model keeps at most one
\* suspended instance of each flow
Suspend(f, w) ==
  /\ Cardinality(flows) < MaxPending
  /\ \A g \in flows : g.op # f.op
  /\ Commit(w)
  /\ flows' = flows \cup {f}
  /\ ev' = [op |-> f.op, phase |-> "suspend", flow |-> f]
  /\ UNCHANGED <<now, ticks, storeB>>
  /\ UNCHANGED apiVars
  /\ UNCHANGED rootVars
  /\ UNCHANGED productVars
  /\ UNCHANGED authVars

\* a flow completes without suspending
Return(f, r) ==
  /\ Commit(r.w)
  /\ ev' = [op |-> f.op, phase |-> "return", ret |-> r.ret, resumed |-> FALSE, flow |-> f]
  /\ UNCHANGED <<flows, now, ticks, storeB>>
  /\ UNCHANGED apiVars
  /\ UNCHANGED rootVars
  /\ UNCHANGED productVars
  /\ UNCHANGED authVars

\* the timer of the suspended flow f fires and the flow runs to completion
Resume(f, r) ==
  /\ Commit(r.w)
  /\ flows' = flows \ {f}
  /\ ev' = [op |-> f.op, phase |-> "return", ret |-> r.ret, resumed |-> TRUE, flow |-> f]
  /\ UNCHANGED <<now, ticks, storeB>>
  /\ UNCHANGED apiVars
  /\ UNCHANGED rootVars
  /\ UNCHANGED productVars
  /\ UNCHANGED authVars

\* afterLogout remembers that a logout completed while the flow was suspended
Flow(name) == [op |-> name, afterLogout |-> FALSE]

LoginFlow(email, password) ==
  [op |-> "login", afterLogout |-> FALSE, email |-> email, password |-> password]

LoginCall == \E c \in Credentials : Suspend(LoginFlow(c[1], c[2]), loginStart(A))

LoginFire ==
  \E f \in flows :
    /\ f.op = "login"
    /\ Resume(f, loginResume(A, f.email, f.password, now))

\* a logout that cancels the suspended flows
LogoutCancelling ==
  /\ Commit(logout(A))
  /\ flows' = {}
  /\ ev' = [op |-> "logout", phase |-> "return"]
  /\ UNCHANGED <<now, ticks, storeB>>
  /\ UNCHANGED apiVars
  /\ UNCHANGED rootVars
  /\ UNCHANGED productVars
  /\ UNCHANGED authVars

\* logout completes in the step that calls it
Logout ==
  /\ Commit(logout(A))
  /\ flows' = {[f EXCEPT !.afterLogout = TRUE] : f \in flows}
  /\ ev' = [op |-> "logout", phase |-> "return"]
  /\ UNCHANGED <<now, ticks, storeB>>
  /\ UNCHANGED apiVars
  /\ UNCHANGED rootVars
  /\ UNCHANGED productVars
  /\ UNCHANGED authVars

Hydrate ==
  /\ Commit(hydrate(A))
  /\ ev' = [op |-> "hydrate", phase |-> "return", corrupted |-> AnyCorrupted(storage),
            threw |-> hydrate(A).threw]
  /\ UNCHANGED <<flows, now, ticks, storeB>>
  /\ UNCHANGED apiVars
  /\ UNCHANGED rootVars
  /\ UNCHANGED productVars
  /\ UNCHANGED authVars

RefreshUserCall ==
  IF refreshUserGuard(A)
  THEN Return(Flow("refreshUser"), Done(A, NoValue))
  ELSE Suspend(Flow("refreshUser"), refreshUserStart(A))

RefreshUserFire ==
  \E f \in flows :
    /\ f.op = "refreshUser"
    /\ Resume(f, refreshUserResume(A))

UpdateUserProfileFlow(u) ==
  [op |-> "updateUserProfile", afterLogout |-> FALSE, updates |-> u]

UpdateUserProfileCall ==
  \E u \in ProfileInputs :
    IF updateUserProfileGuard(A)
    THEN Return(UpdateUserProfileFlow(u), updateUserProfileReject(A))
    ELSE Suspend(UpdateUserProfileFlow(u), updateUserProfileStart(A))

UpdateUserProfileFire ==
  \E f \in flows :
    /\ f.op = "updateUserProfile"
    /\ Resume(f, updateUserProfileResume(A, f.updates))

UpdatePreferencesCall ==
  \E p \in PreferenceInputs :
    Suspend([op |-> "updatePreferences", afterLogout |-> FALSE, preferences |-> p],
            updatePreferencesStart(A))

UpdatePreferencesFire ==
  \E f \in flows :
    /\ f.op = "updatePreferences"
    /\ Resume(f, updatePreferencesResume(A, f.preferences))

RefreshSessionCall ==
  IF refreshSessionGuard(A)
  THEN Return(Flow("refreshSession"), refreshSessionReject(A))
  ELSE Suspend(Flow("refreshSession"), A)

RefreshSessionFire ==
  \E f \in flows :
    /\ f.op = "refreshSession"
    /\ Resume(f, refreshSessionResume(A, now))

(***************************************************************************)
(* Spec: the flows of one store over a storage only the store writes       *)
(***************************************************************************)
Next ==
  \/ LoginCall \/ LoginFire
  \/ Logout
  \/ Hydrate
  \/ RefreshUserCall \/ RefreshUserFire
  \/ UpdateUserProfileCall \/ UpdateUserProfileFire
  \/ UpdatePreferencesCall \/ UpdatePreferencesFire
  \/ RefreshSessionCall \/ RefreshSessionFire

Spec == Init /\ [][Next]_vars

\* the timer of the suspended flow `name` fires: the step of its Fire action,
\* the only step that takes a flow out of the suspended ones
TimerFires(name) == \E f \in flows : f.op = name /\ flows' = flows \ {f}

\* a timer that was started fires: setTimeout callbacks are never cancelled
TimersFire ==
  /\ WF_flows(TimerFires("login"))
  /\ WF_flows(TimerFires("refreshUser"))
  /\ WF_flows(TimerFires("updateUserProfile"))
  /\ WF_flows(TimerFires("updatePreferences"))
  /\ WF_flows(TimerFires("refreshSession"))

SpecLive == Spec /\ TimersFire

(***************************************************************************)
(* SpecSession: the session-related operations with the public setters of  *)
(* the store and a running clock                                           *)
(***************************************************************************)
NextSession ==
  \/ Tick
  \/ SetSession \/ SetCurrentUser
  \/ LoginCall \/ LoginFire
  \/ Logout
  \/ RefreshSessionCall \/ RefreshSessionFire

SpecSession == Init /\ [][NextSession]_vars

(***************************************************************************)
(* SpecRoundTrip: store A persists, a fresh store B over the same storage  *)
(* hydrates                                                                *)
(***************************************************************************)
\* a login that will succeed
LoginDemoCall == Suspend(LoginFlow("demo@example.com", "password"), loginStart(A))

\* a new store is created over the storage and hydrated
HydrateB ==
  LET w == hydrate(World(FreshStore, storage))
  IN /\ storeB' = w.st
     /\ storage' = w.stor
     /\ ev' = [op |-> "hydrateB", phase |-> "return", corrupted |-> AnyCorrupted(storage),
               threw |-> w.threw]
     /\ UNCHANGED <<userStore, flows, now, ticks>>
     /\ UNCHANGED apiVars
     /\ UNCHANGED rootVars
     /\ UNCHANGED productVars
     /\ UNCHANGED authVars

NextRoundTrip ==
  \/ LoginDemoCall \/ LoginFire
  \/ SetUserEmail \/ UpdateProfile \/ SetPreferences
  \/ HydrateB

SpecRoundTrip == Init /\ [][NextRoundTrip]_vars

(***************************************************************************)
(* SpecCorrupt: blobs in the storage get damaged between runs              *)
(***************************************************************************)
CorruptStorage ==
  /\ \E key \in StorageKeys, text \in CorruptTexts :
       storage' = [storage EXCEPT ![key] = text]
  /\ ev' = [op |-> "corrupt"]
  /\ UNCHANGED <<userStore, flows, now, ticks, storeB>>
  /\ UNCHANGED apiVars
  /\ UNCHANGED rootVars
  /\ UNCHANGED productVars
  /\ UNCHANGED authVars

NextCorrupt ==
  \/ LoginDemoCall \/ LoginFire
  \/ Logout
  \/ CorruptStorage
  \/ Hydrate
  \/ HydrateB

SpecCorrupt == Init /\ [][NextCorrupt]_vars

(***************************************************************************)
(* SpecPreferences: preferences are set directly and through the flow, and *)
(* read back from a storage whose blobs may be damaged                     *)
(***************************************************************************)
(***************************************************************************)
(* SpecHydrateTwice: hydrate runs again on a store that was just hydrated, *)
(* over a storage whose blobs may be damaged                               *)
(***************************************************************************)
\* hydrate is called once more on store B
HydrateBAgain ==
  LET w == hydrate(World(storeB, storage))
  IN /\ storeB' = w.st
     /\ storage' = w.stor
     /\ ev' = [op |-> "hydrateBAgain", phase |-> "return", corrupted |-> AnyCorrupted(storage),
               threw |-> w.threw]
     /\ UNCHANGED <<userStore, flows, now, ticks>>
     /\ UNCHANGED apiVars
     /\ UNCHANGED rootVars
     /\ UNCHANGED productVars
     /\ UNCHANGED authVars

NextHydrateTwice ==
  \/ LoginDemoCall \/ LoginFire
  \/ Logout
  \/ CorruptStorage
  \/ Hydrate
  \/ HydrateB
  \/ HydrateBAgain

SpecHydrateTwice == Init /\ [][NextHydrateTwice]_vars

NextPreferences ==
  \/ SetPreferences
  \/ UpdatePreferencesCall \/ UpdatePreferencesFire
  \/ CorruptStorage
  \/ Hydrate

SpecPreferences == Init /\ [][NextPreferences]_vars

(***************************************************************************)
(* SpecReset: RootStore.reset (RootStore.ts) between logins and changes of *)
(* the preferences                                                         *)
(***************************************************************************)
\* reset: yield self.userStore.logout(), which has no suspension point
reset(w) == logout(w)

Reset ==
  /\ Commit(reset(A))
  /\ flows' = {[f EXCEPT !.afterLogout = TRUE] : f \in flows}
  /\ ev' = [op |-> "reset", phase |-> "return"]
  /\ UNCHANGED <<now, ticks, storeB>>
  /\ UNCHANGED apiVars
  /\ UNCHANGED rootVars
  /\ UNCHANGED productVars
  /\ UNCHANGED authVars

NextReset ==
  \/ LoginCall \/ LoginFire
  \/ UpdatePreferencesCall \/ UpdatePreferencesFire
  \/ Reset

SpecReset == Init /\ [][NextReset]_vars

(***************************************************************************)
(* SpecProfile: users with and without a name or an e-mail address are    *)
(* set, edited, logged in and logged out                                   *)
(***************************************************************************)
NamedUserInputs ==
  {Null,
   Obj([id |-> Str("1"), email |-> Str("test@example.com"), name |-> Str("Test User")]),
   Obj([id |-> Str("2"), email |-> Str("a@b.c"), name |-> Str("")]),
   Obj([id |-> Str("3"), email |-> Str("")])}

SetNamedUser == \E d \in NamedUserInputs : SyncStep("setCurrentUser", setCurrentUser(A, d))

NextProfile ==
  \/ SetNamedUser \/ SetUserEmail \/ UpdateProfile
  \/ LoginCall \/ LoginFire
  \/ Logout

SpecProfile == Init /\ [][NextProfile]_vars

(***************************************************************************)
(* SpecApi: the I3HostApi client (i3hostApi.ts) and the navigation         *)
(***************************************************************************)
Callbacks == {"cbA", "cbB"}

Statuses == {200, 401, 403, 500}

Routes == {"Welcome", "Login", "Demo"}

ApiStep(name, info) ==
  /\ ev' = [op |-> name, info |-> info]
  /\ UNCHANGED storeVars
  /\ UNCHANGED authVars
  /\ UNCHANGED rootVars
  /\ UNCHANGED productVars

setLogoutCallback ==
  \E cb \in Callbacks :
    /\ logoutCallback' = cb
    /\ ApiStep("setLogoutCallback", cb)
    /\ UNCHANGED <<navReady, navRoutes, calls>>

\* the navigation container mounts with its initial route
NavigationReady ==
  /\ ~navReady
  /\ navReady' = TRUE
  /\ navRoutes' = <<"Welcome">>
  /\ ApiStep("navigationReady", "")
  /\ UNCHANGED <<logoutCallback, calls>>

\* the user navigates to another screen
Navigate ==
  \E r \in Routes :
    /\ navReady
    /\ Len(navRoutes) < 2
    /\ navRoutes' = Append(navRoutes, r)
    /\ ApiStep("navigate", r)
    /\ UNCHANGED <<logoutCallback, navReady, calls>>

\* handle401Error
handle401Error ==
  /\ calls' = IF logoutCallback # "none"
              THEN [calls EXCEPT ![logoutCallback] = @ + 1]
              ELSE calls
  /\ navRoutes' = IF navReady THEN <<"Login">> ELSE navRoutes

\* a response transform that treats every error status as a 401
ResponseTransformAnyError ==
  \E status \in Statuses :
    /\ \A cb \in Callbacks : calls[cb] < MaxCalls
    /\ IF status >= 400 THEN handle401Error ELSE UNCHANGED <<calls, navRoutes>>
    /\ ApiStep("response", status)
    /\ UNCHANGED <<logoutCallback, navReady>>

\* the response transform registered by setupInterceptors
ResponseTransform ==
  \E status \in Statuses :
    /\ \A cb \in Callbacks : calls[cb] < MaxCalls
    /\ IF status = 401 THEN handle401Error ELSE UNCHANGED <<calls, navRoutes>>
    /\ ApiStep("response", status)
    /\ UNCHANGED <<logoutCallback, navReady>>

NextApi == setLogoutCallback \/ NavigationReady \/ Navigate \/ ResponseTransform

SpecApi == Init /\ [][NextApi]_vars

(***************************************************************************)
(* SpecAuthApi: i3hostLogin (auth/index.ts) and AuthService.i3hostLogin    *)
(* over the I3HostApi client                                               *)
(***************************************************************************)
\* what apisauce hands back: an ok response, an HTTP error, or a transport
\* failure that has no status
Responses ==
  {[ok |-> TRUE, problem |-> "NONE", status |-> 200, data |-> d] : d \in {"body", "none"}}
  \cup {[ok |-> FALSE, problem |-> "CLIENT_ERROR", status |-> c, data |-> "none"] :
          c \in {400, 401, 403, 404}}
  \cup {[ok |-> FALSE, problem |-> "SERVER_ERROR", status |-> 500, data |-> "body"]}
  \cup {[ok |-> FALSE, problem |-> p, status |-> 0, data |-> "none"] :
          p \in {"TIMEOUT_ERROR", "CONNECTION_ERROR", "NETWORK_ERROR", "UNKNOWN_ERROR"}}

\* no problem: the null that `if (problem)` tests for
NoProblem == Null

\* getGeneralApiProblem: the problem kind of a response that is not ok
getGeneralApiProblem(response) ==
  CASE response.problem = "TIMEOUT_ERROR" -> [kind |-> "timeout"]
    [] response.problem \in {"CONNECTION_ERROR", "NETWORK_ERROR"} -> [kind |-> "cannot-connect"]
    [] response.problem = "SERVER_ERROR" -> [kind |-> "server"]
    [] response.problem = "CLIENT_ERROR" ->
         [kind |-> CASE response.status = 401 -> "unauthorized"
                     [] response.status = 403 -> "forbidden"
                     [] response.status = 404 -> "not-found"
                     [] OTHER -> "rejected"]
    [] OTHER -> [kind |-> "unknown"]

\* i3hostLogin that skips the test of response.ok
i3hostLoginNoOkTest(response) == [kind |-> "ok", data |-> response.data]

\* the function i3hostLogin, from the response on; reading response.data
\* cannot throw, so the catch block never runs
i3hostLogin(response) ==
  LET problem == getGeneralApiProblem(response)
  IN IF ~response.ok /\ problem # NoProblem
     THEN problem
     ELSE [kind |-> "ok", data |-> response.data]

\* the method AuthService.i3hostLogin, from the response on
AuthServiceI3hostLogin(response) ==
  LET problem == getGeneralApiProblem(response)
  IN IF ~response.ok /\ problem # NoProblem
     THEN problem
     ELSE [kind |-> "ok", data |-> response.data]

\* i3hostApi.post: the response passes the response transform, then the
\* caller maps it
I3hostLoginCall ==
  \E response \in Responses, variant \in {"function", "method"} :
    /\ \A cb \in Callbacks : calls[cb] < MaxCalls
    /\ IF response.status = 401 THEN handle401Error ELSE UNCHANGED <<calls, navRoutes>>
    /\ ApiStep("i3hostLogin",
               [response |-> response,
                result |-> IF variant = "function" THEN i3hostLogin(response)
                           ELSE AuthServiceI3hostLogin(response)])
    /\ UNCHANGED <<logoutCallback, navReady>>

NextAuthApi == setLogoutCallback \/ NavigationReady \/ Navigate \/ I3hostLoginCall

SpecAuthApi == Init /\ [][NextAuthApi]_vars

(***************************************************************************)
(* SpecAuth: the auth sub-model's fields are edited, Auth.login and        *)
(* Auth.logout run, and the root store over this UserStore is reset        *)
(***************************************************************************)
\* the world the handlers of the auth sub-model run in
B == AuthWorld(authStore, userBlob)

AuthCommit(w) == authStore' = w.st /\ userBlob' = w.blob

AuthEmails == {Str(""), Str("a@b.c"), Str("x@y.z")}

AuthPasswords == {Str(""), Str("secret")}

\* a handler of this store runs to completion; hadUser remembers whether a
\* user was set when it started
AuthStep(name, r, resumed) ==
  /\ AuthCommit(r.w)
  /\ ev' = [op |-> name, phase |-> "return", ret |-> r.ret, resumed |-> resumed,
            hadUser |-> authStore.user # Null]
  /\ UNCHANGED storeVars
  /\ UNCHANGED apiVars
  /\ UNCHANGED rootVars
  /\ UNCHANGED productVars

SetEmail ==
  \E email \in AuthEmails :
    /\ AuthStep("setEmail", Done(setEmail(B, email), NoValue), FALSE)
    /\ UNCHANGED authPending

SetPassword ==
  \E password \in AuthPasswords :
    /\ AuthStep("setPassword", Done(setPassword(B, password), NoValue), FALSE)
    /\ UNCHANGED authPending

\* Auth.login is called: it returns at once or suspends at its timer
AuthLoginCall ==
  IF authLoginGuard(B)
  THEN /\ AuthStep("Auth.login", authLoginReject(B), FALSE)
       /\ UNCHANGED authPending
  ELSE /\ authPending < MaxPending
       /\ authPending' = authPending + 1
       /\ ev' = [op |-> "Auth.login", phase |-> "suspend", ret |-> NoValue,
                 resumed |-> FALSE, hadUser |-> authStore.user # Null]
       /\ UNCHANGED <<authStore, userBlob>>
       /\ UNCHANGED storeVars
       /\ UNCHANGED apiVars
       /\ UNCHANGED rootVars
       /\ UNCHANGED productVars

\* the timer of a suspended Auth.login fires
AuthLoginFire ==
  /\ authPending > 0
  /\ authPending' = authPending - 1
  /\ AuthStep("Auth.login", authLoginResume(B), TRUE)

AuthLogout ==
  /\ AuthStep("Auth.logout", authLogout(B), FALSE)
  /\ UNCHANGED authPending

ResetAuth ==
  /\ AuthStep("RootStore.reset", Done(resetAuth(B), NoValue), FALSE)
  /\ UNCHANGED authPending

NextAuth ==
  \/ SetEmail \/ SetPassword
  \/ AuthLoginCall \/ AuthLoginFire
  \/ AuthLogout
  \/ ResetAuth

SpecAuth == Init /\ [][NextAuth]_vars

(***************************************************************************)
(* SpecRoot: createRootStore and getRootStore are called at any time,      *)
(* between the flows of the user store                                     *)
(***************************************************************************)
\* the module world of RootStore.ts
M == [rootStore |-> rootStore, instances |-> instances]

RootStep(name, r) ==
  /\ rootStore' = r.m.rootStore
  /\ instances' = r.m.instances
  /\ ev' = [op |-> name, phase |-> "return", ret |-> r.ret, threw |-> r.threw, msg |-> r.msg]
  /\ UNCHANGED storeVars
  /\ UNCHANGED apiVars
  /\ UNCHANGED authVars
  /\ UNCHANGED productVars

CreateRootStore ==
  /\ createCalls < MaxCalls
  /\ createCalls' = createCalls + 1
  /\ firstInstance' = IF createCalls = 0 THEN createRootStore(M).ret ELSE firstInstance
  /\ RootStep("createRootStore", createRootStore(M))

GetRootStore ==
  /\ RootStep("getRootStore", getRootStore(M))
  /\ UNCHANGED <<createCalls, firstInstance>>

NextRoot ==
  \/ CreateRootStore \/ GetRootStore
  \/ LoginCall \/ LoginFire
  \/ Reset

SpecRoot == Init /\ [][NextRoot]_vars

(***************************************************************************)
(* SpecProduct: the flows of the ProductStore, interleaved at their        *)
(* timers, and products added and removed in between                       *)
(***************************************************************************)
ProductStep(name, phase, s) ==
  /\ productStore' = s
  /\ ev' = [op |-> name, phase |-> phase]
  /\ UNCHANGED storeVars
  /\ UNCHANGED apiVars
  /\ UNCHANGED authVars
  /\ UNCHANGED rootVars

\* a flow suspends at a timer; at most one suspended instance of each flow
ProductSuspend(f, s) ==
  /\ Cardinality(productFlows) < MaxPending
  /\ \A g \in productFlows : g.op # f.op
  /\ productFlows' = productFlows \cup {f}
  /\ ProductStep(f.op, "suspend", s)

ProductResume(f, s) ==
  /\ f \in productFlows
  /\ productFlows' = productFlows \ {f}
  /\ ProductStep(f.op, "return", s)

ProductFlow(name) == [op |-> name, phase |-> "timer"]

FetchProductsCall == ProductSuspend(ProductFlow("fetchProducts"), fetchProductsStart(productStore))

FetchProductsFire == ProductResume(ProductFlow("fetchProducts"), fetchProductsResume(productStore))

FetchCategoriesCall == ProductSuspend(ProductFlow("fetchCategories"), productStore)

FetchCategoriesFire ==
  ProductResume(ProductFlow("fetchCategories"), fetchCategoriesResume(productStore))

SearchProductsCall ==
  ProductSuspend(ProductFlow("searchProducts"), searchProductsStart(productStore))

SearchProductsFire ==
  ProductResume(ProductFlow("searchProducts"), searchProductsResume(productStore))

\* initialize is called: it waits for fetchCategories
InitializeCall ==
  ProductSuspend([op |-> "initialize", phase |-> "categories"], initializeStart(productStore))

\* the timer of fetchCategories fires: initialize starts fetchProducts
InitializeCategoriesFire ==
  /\ [op |-> "initialize", phase |-> "categories"] \in productFlows
  /\ productFlows' = (productFlows \ {[op |-> "initialize", phase |-> "categories"]})
                       \cup {[op |-> "initialize", phase |-> "products"]}
  /\ ProductStep("initialize", "products", initializeCategoriesDone(productStore))

\* the timer of fetchProducts fires: initialize completes
InitializeProductsFire ==
  ProductResume([op |-> "initialize", phase |-> "products"],
                initializeProductsDone(productStore))

ProductInputs ==
  {Obj([id |-> Str("3"), name |-> Str("Extra"), price |-> Num(100)])}

AddProduct ==
  \E productData \in ProductInputs :
    /\ Len(productStore.products) < MaxProducts
    /\ ProductStep("addProduct", "return", addProduct(productStore, productData))
    /\ UNCHANGED productFlows

RemoveProduct ==
  \E productId \in {"1", "3"} :
    /\ ProductStep("removeProduct", "return", removeProduct(productStore, productId))
    /\ UNCHANGED productFlows

NextProduct ==
  \/ FetchProductsCall \/ FetchProductsFire
  \/ FetchCategoriesCall \/ FetchCategoriesFire
  \/ SearchProductsCall \/ SearchProductsFire
  \/ InitializeCall \/ InitializeCategoriesFire \/ InitializeProductsFire
  \/ AddProduct \/ RemoveProduct

SpecProduct == Init /\ [][NextProduct]_vars

(***************************************************************************)
(* SpecEmail: the user's e-mail address is edited one character at a time  *)
(* (a text input bound to setUserEmail); here a string is the sequence of  *)
(* its characters                                                          *)
(***************************************************************************)
EmailChars == {"a", "@", ".", " "}

\* a user with an empty e-mail address appears, or the user is removed
EmailSetCurrentUser ==
  \E d \in {Null, Obj([id |-> Str("1"), email |-> Str(<<>>)])} :
    SyncStep("setCurrentUser", setCurrentUser(A, d))

EmailType ==
  \E c \in EmailChars :
    /\ Len(userEmail(userStore).s) < MaxEmailLen
    /\ SyncStep("setUserEmail", setUserEmail(A, Str(Append(userEmail(userStore).s, c))))

EmailErase ==
  /\ Len(userEmail(userStore).s) > 0
  /\ SyncStep("setUserEmail",
              setUserEmail(A, Str(SubSeq(userEmail(userStore).s, 1,
                                         Len(userEmail(userStore).s) - 1))))

NextEmail == EmailSetCurrentUser \/ EmailType \/ EmailErase

SpecEmail == Init /\ [][NextEmail]_vars

(***************************************************************************)
(* Properties of login and logout                                          *)
(***************************************************************************)


\* the last step completed the flow `name`
Completed(name) == ev.op = name /\ ev.phase = "return"

\* the one accepted credential pair, written out
IsDemoPair(f) == f.email = "demo@example.com" /\ f.password = "password"

DefaultPreferences ==
  Obj([theme |-> Str("system"), language |-> Str("en"), notifications |-> Bool(TRUE)])

\* C1: when a login with demo@example.com / password completes, it returns
\* success:true, the session has a non-empty token, currentUser is user "1"
\* with that email, preferences are system / en / true, and isAuthenticated
\* is true
LoginSuccessSetsAll ==
  (Completed("login") /\ IsDemoPair(ev.flow)) =>
    /\ ev.ret.success = TRUE
    /\ userStore.session.t = "object"
    /\ userStore.session.o.token.t = "string"
    /\ userStore.session.o.token.s # ""
    /\ userStore.currentUser.t = "object"
    /\ userStore.currentUser.o.id = Str("1")
    /\ userStore.currentUser.o.email = Str("demo@example.com")
    /\ userStore.preferences = DefaultPreferences
    /\ isAuthenticated(userStore)

\* C1 witness: a demo login has completed on a store that is now authenticated
LoginSuccessReached ==
  /\ Completed("login") /\ IsDemoPair(ev.flow)
  /\ ev.ret.success = TRUE
  /\ isAuthenticated(userStore)
  /\ storage.userSession # Absent

\* C2: a login with any other credential pair changes neither session,
\* currentUser, preferences nor any storage key, in the step that starts it
\* and in the step that completes it, and it returns success:false with the
\* error "Invalid email or password"
LoginInvalidLeavesState ==
  [][(ev'.op = "login" /\ ~IsDemoPair(ev'.flow)) =>
       /\ userStore'.session = userStore.session
       /\ userStore'.currentUser = userStore.currentUser
       /\ userStore'.preferences = userStore.preferences
       /\ storage' = storage
       /\ (ev'.phase = "return" =>
             /\ ev'.ret.success = FALSE
             /\ ev'.ret.error = Str("Invalid email or password"))]_vars

\* C2 witness: a login with a wrong pair has completed with the error on a
\* store without session
LoginInvalidReached ==
  /\ Completed("login") /\ ~IsDemoPair(ev.flow)
  /\ ev.ret.success = FALSE
  /\ userStore.session = Undefined
  /\ storage.userSession = Absent

\* C3: a logout leaves session and currentUser unset and their storage keys
\* deleted, and leaves preferences and the userPreferences key as they were
LogoutClearsButKeepsPreferences ==
  [][ev'.op = "logout" =>
       /\ userStore'.session = Undefined
       /\ userStore'.currentUser = Undefined
       /\ storage'.userSession = Absent
       /\ storage'.currentUser = Absent
       /\ userStore'.preferences = userStore.preferences
       /\ storage'.userPreferences = storage.userPreferences]_vars

\* C3 witness: a logout has run on a store that holds preferences
LogoutReached ==
  /\ ev.op = "logout"
  /\ userStore.session = Undefined
  /\ Truthy(userStore.preferences)
  /\ storage.userPreferences # Absent

\* C6: when login, updateUserProfile, updatePreferences or refreshSession
\* completes with success:false, the error field holds the returned error
FailureVisibleInErrorField ==
  (/\ ev.op \in {"login", "updateUserProfile", "updatePreferences", "refreshSession"}
   /\ ev.phase = "return"
   /\ ev.ret.success = FALSE)
  => userStore.error = ev.ret.error

\* C7: a suspended demo login is never dropped: it stays suspended until its
\* timer fires, and when it fires the store is authenticated, also when a
\* logout completed while the login was suspended
LoginNeverAborted ==
  [][/\ \A f \in flows :
          (f.op = "login" /\ IsDemoPair(f)) =>
            \/ \E g \in flows' : g.op = "login" /\ g.email = f.email /\ g.password = f.password
            \/ /\ ev'.op = "login" /\ ev'.phase = "return" /\ ev'.flow = f
               /\ isAuthenticated(userStore')
     /\ (ev'.op = "login" /\ ev'.phase = "return" /\ IsDemoPair(ev'.flow)
         /\ ev'.flow.afterLogout) =>
           /\ Truthy(userStore'.session)
           /\ Truthy(userStore'.currentUser)
           /\ isAuthenticated(userStore')]_vars

\* C7 witness: a demo login completed after a logout that ran while it was
\* suspended, and the store is authenticated
LoginAfterLogoutReached ==
  /\ Completed("login") /\ IsDemoPair(ev.flow)
  /\ ev.flow.afterLogout
  /\ isAuthenticated(userStore)

(***************************************************************************)
(* Properties of hydrate, refreshSession, persistence and expiry           *)
(***************************************************************************)
\* the store the last hydrate ran on
Hydrated == IF ev.op = "hydrateB" THEN storeB ELSE userStore

\* C4: when a stored value is corrupted, hydrate does not throw and ends with
\* session and currentUser unset and isLoading false
HydrateCorruptedEndsEmpty ==
  (ev.op \in {"hydrate", "hydrateB"} /\ ev.corrupted) =>
    /\ ~ev.threw
    /\ Hydrated.session = Undefined
    /\ Hydrated.currentUser = Undefined
    /\ ~Hydrated.isLoading

\* C5 as stated: whenever refreshSession returns success:false, session and
\* currentUser are unset afterwards
RefreshFailureLogsOut ==
  (Completed("refreshSession") /\ ev.ret.success = FALSE) =>
    /\ userStore.session = Undefined
    /\ userStore.currentUser = Undefined

\* C5 amended: a refreshSession that fails after its timer logs out (session
\* and currentUser are unset afterwards); one that fails before suspending
\* returns "No refresh token available" and leaves session and currentUser
\* as they were
RefreshFailureAfterTimerLogsOut ==
  [][(ev'.op = "refreshSession" /\ ev'.phase = "return" /\ ev'.ret.success = FALSE) =>
       IF ev'.resumed
       THEN /\ userStore'.session = Undefined
            /\ userStore'.currentUser = Undefined
       ELSE /\ ev'.ret.error = Str("No refresh token available")
            /\ userStore'.session = userStore.session
            /\ userStore'.currentUser = userStore.currentUser]_vars

\* C5 witness: a refreshSession failed after its timer and the store is
\* logged out
RefreshFailureAfterTimerReached ==
  /\ Completed("refreshSession")
  /\ ev.resumed
  /\ ev.ret.success = FALSE
  /\ userStore.session = Undefined
  /\ userStore.currentUser = Undefined

\* C8: a response with status 401 invokes the registered logout callback
\* exactly once and, when navigation is ready, resets the route stack to
\* <<"Login">>; a response with another status does neither
Response401LogsOut ==
  [][ev'.op = "response" =>
       IF ev'.info = 401
       THEN /\ \A cb \in Callbacks :
                 calls'[cb] = IF cb = logoutCallback THEN calls[cb] + 1 ELSE calls[cb]
            /\ navRoutes' = IF navReady THEN <<"Login">> ELSE navRoutes
       ELSE /\ calls' = calls
            /\ navRoutes' = navRoutes]_vars

\* C8 witness: a 401 arrived with a callback registered and navigation ready
Response401Reached ==
  /\ ev.op = "response" /\ ev.info = 401
  /\ logoutCallback = "cbA"
  /\ calls["cbA"] = 1
  /\ navRoutes = <<"Login">>

\* C9: a fresh store hydrated from the storage that store A wrote has the
\* same session, currentUser and preferences as store A
HydrateRestoresWhatWasPersisted ==
  ev.op = "hydrateB" =>
    /\ storeB.session = userStore.session
    /\ storeB.currentUser = userStore.currentUser
    /\ storeB.preferences = userStore.preferences

\* C9 witness: store B was hydrated after store A logged in and changed the
\* user's e-mail address
HydrateRestoresReached ==
  /\ ev.op = "hydrateB"
  /\ Truthy(storeB.session)
  /\ Truthy(storeB.preferences)
  /\ Truthy(storeB.currentUser)
  /\ storeB.currentUser.o.email = Str("new@example.com")

\* the expiry instant of the session, if its expiresAt is a timestamp
ExpiryInstants ==
  {n \in KnownTimes :
     /\ userStore.session.t = "object"
     /\ userStore.session.o.expiresAt = Str(toISOString(n))}

\* C10: isSessionExpired is true exactly when the session has an expiresAt
\* timestamp that is strictly earlier than the current time
SessionExpiredIffPast ==
  isSessionExpired(userStore, now) <=> \E n \in ExpiryInstants : n < now

\* C10 witness: the clock stands exactly at the expiry of a session, which
\* is not yet expired
SessionAtExpiryReached ==
  /\ now \in ExpiryInstants
  /\ ~isSessionExpired(userStore, now)
  /\ ev.op = "tick"

\* a session whose expiry has passed is reported as expired
SessionExpiredReached ==
  /\ \E n \in ExpiryInstants : n < now
  /\ isSessionExpired(userStore, now)

(***************************************************************************)
(* Properties of the views                                                 *)
(***************************************************************************)
\* the characters of the current user's e-mail address, none when absent
EmailOfUser ==
  IF userStore.currentUser.t = "object" THEN userStore.currentUser.o.email.s ELSE <<>>

\* local@domain.tld: one "@" with a non-empty local part before it, no
\* whitespace, and after the "@" a dot with at least one character on
\* either side
LocalAtDomainTld(e) ==
  \E i \in 2..Len(e) :
    /\ e[i] = "@"
    /\ \A k \in 1..Len(e) : k # i => e[k] \notin {"@", " "}
    /\ \E j \in (i + 2)..(Len(e) - 1) : e[j] = "."

\* C11: emailValidationError is "Email can't be blank" for an empty or absent
\* e-mail, else "Email must be at least 6 characters" below length 6, else
\* "Must be a valid email address" when the local@domain.tld pattern fails,
\* else the empty string; isLoginValid is true exactly in the last case
EmailValidationPrecedence ==
  /\ emailValidationError(userStore) =
       IF Len(EmailOfUser) = 0 THEN Str("Email can't be blank")
       ELSE IF Len(EmailOfUser) < 6 THEN Str("Email must be at least 6 characters")
       ELSE IF ~LocalAtDomainTld(EmailOfUser) THEN Str("Must be a valid email address")
       ELSE Str("")
  /\ isLoginValid(userStore) <=> (Len(EmailOfUser) >= 6 /\ LocalAtDomainTld(EmailOfUser))

\* C11 witness: an address of six characters that passes all three rules
EmailValidReached ==
  /\ EmailOfUser = <<"a", "@", "a", ".", "a", "a">>
  /\ isLoginValid(userStore)
  /\ ev.op = "setUserEmail"

\* an address that is both too short and malformed is reported as too short
EmailShortAndMalformedReached ==
  /\ EmailOfUser = <<"@", " ">>
  /\ emailValidationError(userStore) = Str("Email must be at least 6 characters")

(***************************************************************************)
(* Properties of the flows as a whole                                      *)
(***************************************************************************)
SuspendingFlows == {"login", "refreshUser", "updateUserProfile", "updatePreferences"}

\* the flow `name` is suspended at its timer
InFlight(name) == \E f \in flows : f.op = name

\* C12: every started flow completes after its timer (logout and hydrate
\* complete in the step that calls them), and whenever no flow is in flight
\* isLoading and isAuthenticating are both false
FlowsCompleteAndClearFlags ==
  /\ [](flows = {} => (~userStore.isLoading /\ ~userStore.isAuthenticating))
  /\ [](ev.op \in {"logout", "hydrate"} => ev.phase = "return")
  /\ \A name \in SuspendingFlows :
       InFlight(name) ~> (ev.op = name /\ ev.phase = "return" /\ ev.resumed)

\* C12 witness: an updatePreferences has failed after its timer, no flow is
\* in flight any more and the loading flag is cleared
FailedFlowCompletedReached ==
  /\ Completed("updatePreferences")
  /\ ev.resumed
  /\ ev.ret.success = FALSE
  /\ flows = {}
  /\ ~userStore.isLoading

\* the timer steps that the fairness condition is about are the steps of the
\* Fire actions
TimerFiresIsResume ==
  [][\A name \in SuspendingFlows \cup {"refreshSession"} :
       TimerFires(name) => (ev'.op = name /\ ev'.phase = "return" /\ ev'.resumed)]_vars

(***************************************************************************)
(* Properties of the preferences                                           *)
(***************************************************************************)
\* C13: whenever preferences is set its theme is light, dark or system,
\* whatever theme setPreferences, updatePreferences or a stored blob carried
ThemeAlwaysKnown ==
  Truthy(userStore.preferences) =>
    userStore.preferences.o.theme \in {Str("light"), Str("dark"), Str("system")}

\* C13 witness: an updatePreferences carrying the theme purple has completed
\* on a store that has preferences, and the theme is still the earlier one
UnknownThemeRejectedReached ==
  /\ Completed("updatePreferences")
  /\ ev.resumed
  /\ Prop(ev.flow.preferences, "theme") = Str("purple")
  /\ Truthy(userStore.preferences)
  /\ userStore.preferences.o.theme = Str("dark")

(***************************************************************************)
(* Properties of RootStore.reset                                           *)
(***************************************************************************)
\* C14: after reset completes the user store is as freshly created:
\* currentUser, session, preferences and error are unset and isLoading and
\* isAuthenticating are false
ResetRestoresInitialState ==
  Completed("reset") =>
    /\ userStore.currentUser = Undefined
    /\ userStore.session = Undefined
    /\ userStore.preferences = Undefined
    /\ userStore.error = Undefined
    /\ ~userStore.isLoading
    /\ ~userStore.isAuthenticating

\* what reset does leave behind: the preferences of the last user
ResetKeepsPreferencesReached ==
  /\ Completed("reset")
  /\ flows = {}
  /\ Truthy(userStore.preferences)
  /\ storage.userPreferences # Absent

(***************************************************************************)
(* Properties of userDisplayName                                           *)
(***************************************************************************)
\* the current user has a non-empty string under the property f
HasText(f) ==
  /\ userStore.currentUser # Undefined
  /\ userStore.currentUser.o[f] # Undefined
  /\ userStore.currentUser.o[f].s # ""

\* C15: userDisplayName is the user's name when non-empty, else the user's
\* e-mail address when non-empty, else "Unknown User" (also without a user)
DisplayNameByCases ==
  userDisplayName(userStore) =
    IF HasText("name") THEN userStore.currentUser.o.name
    ELSE IF HasText("email") THEN userStore.currentUser.o.email
    ELSE Str("Unknown User")

\* C15 witness: a user whose name is the empty string is shown by the e-mail
\* address
DisplayNameFallsBackToEmailReached ==
  /\ userStore.currentUser # Undefined
  /\ userStore.currentUser.o.name = Str("")
  /\ userDisplayName(userStore) = Str("a@b.c")

DisplayNameUnknownWithUserReached ==
  /\ userStore.currentUser # Undefined
  /\ userDisplayName(userStore) = Str("Unknown User")

DisplayNameIsNameReached ==
  /\ ev.op = "updateProfile"
  /\ userDisplayName(userStore) = Str("New Name")

AuthLoginCalled == ev.op = "Auth.login" /\ ~ev.resumed

\* C17: Auth.login called with an empty e-mail address or an empty password
\* returns the failure "Email and password are required" in the same step and
\* changes neither the user, the stored user nor the auth fields
AuthLoginEmptyRejected ==
  [][(/\ AuthLoginCalled'
      /\ (authStore.auth.email = Str("") \/ authStore.auth.password = Str("")))
     => (/\ ev'.phase = "return"
         /\ ev'.ret = [success |-> FALSE, error |-> Str("Email and password are required")]
         /\ authPending' = authPending
         /\ authStore' = authStore
         /\ userBlob' = userBlob)]_vars

\* C17 witness: a login with an e-mail address but no password was turned
\* down while a user was set
AuthLoginEmptyPasswordReached ==
  /\ AuthLoginCalled
  /\ ev.phase = "return"
  /\ ev.hadUser
  /\ authStore.auth.email = Str("a@b.c")
  /\ authStore.auth.password = Str("")

\* C18: when the timer of an Auth.login fires, the user becomes user-123
\* with the auth e-mail address, the same data is stored under the user key,
\* the password is cleared, the e-mail address is kept and the flow returns
\* success with that user
AuthLoginSetsUser ==
  [][(ev'.op = "Auth.login" /\ ev'.resumed) =>
       LET data == Obj([id |-> Str("user-123"), email |-> authStore.auth.email,
                        firstName |-> Str("John"), lastName |-> Str("Doe")])
       IN /\ authStore'.user.o.id = Str("user-123")
          /\ authStore'.user.o.email = authStore.auth.email
          /\ JSONparse(userBlob') = [ok |-> TRUE, v |-> data]
          /\ authStore'.auth.password = Str("")
          /\ authStore'.auth.email = authStore.auth.email
          /\ ev'.ret = [success |-> TRUE, user |-> data]]_vars

\* C18 witness: a login has completed after its timer for x@y.z
AuthLoginCompletedReached ==
  /\ ev.op = "Auth.login"
  /\ ev.resumed
  /\ authStore.user # Null
  /\ authStore.user.o.email = Str("x@y.z")
  /\ userBlob # Absent

\* C19: after Auth.logout or RootStore.reset the user is null, nothing is
\* stored under the user key and both auth fields are empty
AuthLogoutClearsAll ==
  ev.op \in {"Auth.logout", "RootStore.reset"} =>
    /\ authStore.user = Null
    /\ userBlob = Absent
    /\ authStore.auth.email = Str("")
    /\ authStore.auth.password = Str("")

\* C19 witness: Auth.logout has run on a store that held a user
AuthLogoutReached ==
  /\ ev.op = "Auth.logout"
  /\ ev.hadUser
  /\ authStore.user = Null

AuthResetReached ==
  /\ ev.op = "RootStore.reset"
  /\ ev.hadUser
  /\ authStore.user = Null

(***************************************************************************)
(* Properties of updateUserProfile                                         *)
(***************************************************************************)
NoSessionToken ==
  userStore.session = Undefined \/ userStore.session.o.token = Str("")

\* the step is a call of updateUserProfile made without a session token: it
\* fails with "Not authenticated", sets the error field and changes neither
\* currentUser, the stored currentUser nor isLoading
UpdateWithoutTokenRejected ==
  (/\ ev'.op = "updateUserProfile"
   /\ NoSessionToken
   /\ (ev'.phase = "suspend" \/ ~ev'.resumed))
  => (/\ ev'.phase = "return"
      /\ ev'.ret = [success |-> FALSE, error |-> Str("Not authenticated")]
      /\ userStore'.error = Str("Not authenticated")
      /\ userStore'.currentUser = userStore.currentUser
      /\ storage'.currentUser = storage.currentUser
      /\ userStore'.isLoading = userStore.isLoading)

\* the step is the firing of the timer of an updateUserProfile that was
\* suspended when a logout completed
UpdateFiresAfterLogout ==
  /\ ev'.op = "updateUserProfile"
  /\ ev'.phase = "return"
  /\ ev'.resumed
  /\ ev'.flow.afterLogout

\* C20: updateUserProfile without a session token is rejected without other
\* effect, and an updateUserProfile suspended when logout completed never
\* recreates currentUser or rewrites the stored currentUser when it fires
UpdateProfileRejectedOrInert ==
  [][/\ UpdateWithoutTokenRejected
     /\ UpdateFiresAfterLogout =>
          /\ (userStore.currentUser = Undefined => userStore'.currentUser = Undefined)
          /\ storage'.currentUser = storage.currentUser]_vars

\* C20 as amended: the same, for an updateUserProfile that fires while no
\* login has set a current user again since the logout
UpdateProfileRejectedOrInertUnlessLoggedIn ==
  [][/\ UpdateWithoutTokenRejected
     /\ (UpdateFiresAfterLogout /\ userStore.currentUser = Undefined) =>
          /\ userStore'.currentUser = Undefined
          /\ storage'.currentUser = storage.currentUser]_vars

\* C20 witness: an updateUserProfile that a logout overtook has fired on a
\* store without a current user
UpdateAfterLogoutFiredReached ==
  /\ Completed("updateUserProfile")
  /\ ev.resumed
  /\ ev.flow.afterLogout
  /\ userStore.currentUser = Undefined
  /\ storage.currentUser = Absent

\* an updateUserProfile has been rejected for want of a session token
UpdateRejectedReached ==
  /\ Completed("updateUserProfile")
  /\ ~ev.resumed
  /\ userStore.error = Str("Not authenticated")

(***************************************************************************)
(* Properties of the root store singleton                                  *)
(***************************************************************************)
\* C21: every createRootStore returns the instance the first call returned;
\* getRootStore throws "Root store has not been created yet..." exactly when
\* createRootStore was never called, and returns that instance otherwise
RootStoreIsSingleton ==
  /\ ev.op = "createRootStore" =>
       (~ev.threw /\ ev.ret # 0 /\ ev.ret = firstInstance)
  /\ ev.op = "getRootStore" =>
       IF createCalls = 0
       THEN ev.threw
            /\ ev.msg = "Root store has not been created yet. Call createRootStore() first."
       ELSE ~ev.threw /\ ev.ret # 0 /\ ev.ret = firstInstance

\* C21 witness: a second createRootStore has returned the first instance
SecondCreateReached ==
  /\ ev.op = "createRootStore"
  /\ createCalls = 2
  /\ ev.ret = firstInstance
  /\ instances = 1

GetBeforeCreateReached ==
  /\ ev.op = "getRootStore"
  /\ ev.threw
  /\ createCalls = 0

(***************************************************************************)
(* Properties of the ProductStore                                          *)
(***************************************************************************)
\* the ids of a list of products or categories, in order
IdsOf(list) == [i \in 1..Len(list) |-> list[i].o.id.s]

\* C22: a call of initialize neither sets isLoading nor replaces the
\* products; fetchProducts starts in the step in which fetchCategories has
\* set the two mock categories; and when initialize completes the store
\* holds the two mock categories and the two mock products, isLoading false
InitializeFetchesInSequence ==
  [][ev'.op = "initialize" =>
       CASE ev'.phase = "suspend" ->
              /\ productStore'.isLoading = productStore.isLoading
              /\ productStore'.products = productStore.products
         [] ev'.phase = "products" ->
              /\ IdsOf(productStore'.categories) = <<"electronics", "clothing">>
              /\ productStore'.isLoading
              /\ productStore'.products = productStore.products
         [] OTHER ->
              /\ IdsOf(productStore'.categories) = <<"electronics", "clothing">>
              /\ IdsOf(productStore'.products) = <<"1", "2">>
              /\ ~productStore'.isLoading]_vars

\* C22 witness: initialize has completed on a store whose products had been
\* edited while it waited
InitializeCompletedReached ==
  /\ ev.op = "initialize"
  /\ ev.phase = "return"
  /\ Len(productStore.products) = 2
  /\ productFlows # {}

\* initialize is waiting for fetchCategories while nothing is loading
InitializeWaitingReached ==
  /\ [op |-> "initialize", phase |-> "categories"] \in productFlows
  /\ ~productStore.isLoading
  /\ productStore.categories = <<>>

(***************************************************************************)
(* Properties of the interleaved flows                                     *)
(***************************************************************************)
\* C23: through the flows alone, from an empty store and an empty storage,
\* session is set if and only if currentUser is set
SessionIffCurrentUser ==
  (userStore.session # Undefined) <=> (userStore.currentUser # Undefined)

\* C23 witness: a refreshSession that a logout overtook has fired after a
\* later login, and session and currentUser are both set
RefreshAfterReloginReached ==
  /\ Completed("refreshSession")
  /\ ev.resumed
  /\ ev.flow.afterLogout
  /\ userStore.session # Undefined
  /\ userStore.currentUser # Undefined

\* C24: when the timer of a refreshSession that was suspended when logout
\* completed fires and no login has set a session since, session and
\* currentUser stay unset, nothing is stored under userSession and the flow
\* returns success:false
RefreshAfterLogoutStaysLoggedOut ==
  [][(/\ ev'.op = "refreshSession"
      /\ ev'.phase = "return"
      /\ ev'.resumed
      /\ ev'.flow.afterLogout
      /\ userStore.session = Undefined
      /\ userStore.currentUser = Undefined)
     => (/\ userStore'.session = Undefined
         /\ userStore'.currentUser = Undefined
         /\ storage'.userSession = Absent
         /\ ev'.ret.success = FALSE)]_vars

\* C24 witness: such a refreshSession has fired on a logged-out store
RefreshAfterLogoutFiredReached ==
  /\ Completed("refreshSession")
  /\ ev.resumed
  /\ ev.flow.afterLogout
  /\ userStore.session = Undefined
  /\ storage.userSession = Absent
  /\ ev.ret.success = FALSE

(***************************************************************************)
(* The loading flag under overlapping flows                                *)
(***************************************************************************)
\* the flows that raise isLoading and suspend at a timer; logout and hydrate
\* raise and clear it within one step
LoadingFlows == {"refreshUser", "updateUserProfile", "updatePreferences"}

\* C25: isLoading is true in every state in which one of the flows logout,
\* hydrate, refreshUser, updateUserProfile or updatePreferences has started
\* and not yet completed, also when two of them overlap and one finishes first
LoadingWhileAnyFlowInFlight ==
  (\E name \in LoadingFlows : InFlight(name)) => userStore.isLoading

(***************************************************************************)
(* Hydrating twice                                                         *)
(***************************************************************************)
\* session, currentUser and preferences of a store
Restored(s) == <<s.session, s.currentUser, s.preferences>>

\* C26: hydrate is idempotent: a second hydrate right after a first one
\* leaves session, currentUser, preferences and the storage as the first one
\* left them, whatever the storage held (valid, absent or corrupted per key)
HydrateIsIdempotent ==
  [][/\ (ev.op = "hydrate" /\ ev'.op = "hydrate") =>
          (Restored(userStore') = Restored(userStore) /\ storage' = storage)
     /\ (ev.op \in {"hydrateB", "hydrateBAgain"} /\ ev'.op = "hydrateBAgain") =>
          (Restored(storeB') = Restored(storeB) /\ storage' = storage)]_vars

====
